---------------------------- MODULE Spec2Model ----------------------------
(***************************************************************************)
(* Model of GoodixCfgBin::parse (src/main.rs): the decoder of a Goodix     *)
(* touch-controller "cfg bin".  The byte buffer is the sequence `input`    *)
(* (index k of the source is input[k+1]); parse is followed statement by   *)
(* statement through the program counter `pc`.                             *)
(*                                                                         *)
(* The crate attribute allow(arithmetic_overflow) silences a lint only:    *)
(* whether u8/u32/usize arithmetic panics or wraps is decided by the       *)
(* build's overflow-checks setting (on in the dev profile, off in the      *)
(* release profile).  `overflow_checks` is that setting.                   *)
(*                                                                         *)
(* Raw-pointer copies (copy_nonoverlapping) are unchecked: a copy that     *)
(* leaves the buffer, or overruns the 4096-byte destination, is undefined  *)
(* behaviour.  It is modelled as a choice between the process dying        *)
(* (result "crash") and the copy going on with unspecified bytes.          *)
(*                                                                         *)
(* TLC integers are 32-bit signed.  A usize that wrapped below zero        *)
(* (2^64 + d with d < 0) is represented by d itself; the u32 fields the    *)
(* code never computes with are kept as their little-endian bytes.         *)
(***************************************************************************)
EXTENDS Integers, Sequences, FiniteSets, TLC

VARIABLES
    input,            \* parse's argument: the byte buffer
    overflow_checks,  \* the build's overflow-checks setting
    pc,               \* position in parse
    head,             \* this.head
    checksum,         \* local checksum (u8)
    i,                \* loop index of `for i in 0..pkg_num`
    offset1,          \* local offset1 (u8)
    offset2,          \* local offset2 (u8)
    cfg_pkg,          \* local cfg_pkg, the package being assembled
    ic_config,        \* local ic_config
    cfg_pkgs,         \* this.cfg_pkgs
    ic_configs,       \* this.ic_configs
    result,           \* "none" while running, else how parse ended
    site,             \* the statement that panicked or crashed
    oob,              \* an unchecked copy went outside its source or destination
    slotReads,        \* offset-table byte indices parse has indexed
    pkgReads          \* package indices whose bytes parse has copied

vars == <<input, overflow_checks, pc, head, checksum, i, offset1, offset2, cfg_pkg,
          ic_config, cfg_pkgs, ic_configs, result, site, oob, slotReads, pkgReads>>

(***************************************************************************)
(* Bounds of the checked inputs.                                           *)
(***************************************************************************)
MaxPkgNum == 3
MaxShortLen == 18

(***************************************************************************)
(* Program constants and record sizes.                                     *)
(***************************************************************************)
TS_BIN_VERSION_START_INDEX == 5
TS_BIN_VERSION_LEN == 4
TS_CFG_BIN_HEAD_RESERVED_LEN == 6
TS_CFG_OFFSET_LEN == 2
TS_IC_TYPE_NAME_MAX_LEN == 15
TS_CFG_BLOCK_PID_LEN == 8
TS_CFG_BLOCK_VID_LEN == 8
TS_CFG_BLOCK_FW_MASK_LEN == 9
TS_CFG_BLOCK_FW_PATCH_LEN == 4
TS_CFG_BLOCK_RESERVED_LEN == 9
GOODIX_CFG_MAX_SIZE == 4096

\* size_of::<GoodixCfgBinHead>(): packed(1), u32 + u8 + [u8; 4] + u8
SizeOfBinHead == 4 + 1 + TS_BIN_VERSION_LEN + 1
\* size_of::<GoodixCfgPkgReg>(): packed(1), u16 + u8 + u8
SizeOfPkgReg == 2 + 1 + 1
TS_CFG_BIN_HEAD_LEN == SizeOfBinHead + TS_CFG_BIN_HEAD_RESERVED_LEN
TS_PKG_CONST_INFO_LEN ==
    4 + TS_IC_TYPE_NAME_MAX_LEN + 1 + 1 + TS_CFG_BLOCK_PID_LEN + TS_CFG_BLOCK_VID_LEN
      + TS_CFG_BLOCK_FW_MASK_LEN + TS_CFG_BLOCK_FW_PATCH_LEN + 2 + 2 + 2
TS_PKG_REG_INFO_LEN == 14 * SizeOfPkgReg + TS_CFG_BLOCK_RESERVED_LEN
TS_PKG_HEAD_LEN == TS_PKG_CONST_INFO_LEN + TS_PKG_REG_INFO_LEN

\* enum Error, plus the ways parse ends that are not a returned value
Errors == {"InvalidSize", "LengthCheckFail", "ChecksumMismatch", "InvalidOffset"}

Min(a, b) == IF a < b THEN a ELSE b

(***************************************************************************)
(* Buffer access.                                                          *)
(***************************************************************************)
InputLen == Len(input)

\* input[k], valid for k < input.len()
At(k) == input[k + 1]

\* the byte an unchecked pointer read at index k yields: the buffer's byte, or
\* the unspecified byte g when k is outside the buffer
RawAt(k, g) == IF k < InputLen THEN input[k + 1] ELSE g

\* n bytes copied from index k by copy_nonoverlapping
RawCopy(k, n, g) == [j \in 1..n |-> RawAt(k + j - 1, g)]

\* little-endian u16 / u32 of a byte sequence, as memcpy into a packed field
\* reads it on a little-endian target
LE16(b) == b[1] + 256 * b[2]
LE32(b) == b[1] + 256 * b[2] + 65536 * b[3] + 16777216 * b[4]

\* unspecified bytes an out-of-bounds read may yield
Garbage == {0, 255}


(***************************************************************************)
(* Fixed-width arithmetic.  Each operator yields the wrapped value and     *)
(* whether the operation overflowed; an overflow panics when the build     *)
(* has overflow checks and wraps otherwise.                                *)
(***************************************************************************)
\* u8 + u8
U8Add(a, b) == [val |-> (a + b) % 256, overflow |-> a + b > 255]

\* u8 << n: overflows when n is not below the 8 bits of the type; without
\* overflow checks the shift amount is masked to the type's width (n & 7)
U8Shl(a, n) == [val |-> (a * 2 ^ (n % 8)) % 256, overflow |-> n >= 8]

\* u32 - u32 and usize - usize; a wrapped difference is kept as the negative d
\* that stands for 2^32 + d (2^64 + d)
WordSub(a, b) == [val |-> a - b, overflow |-> a < b]

\* usize as i32 (the low 32 bits, read signed): a length below 2^31 is
\* unchanged, and a wrapped 2^64 + d, which is kept as d, becomes d
AsI32(n) == n

(***************************************************************************)
(* Lines 138-142: let mut checksum = 0;                                    *)
(*                for i in 5..input.len() { checksum += input[i]; }        *)
(* The fold runs left to right as the loop does and stops at the first     *)
(* addition that panics.  ChecksumChunk is the loop over one stretch of    *)
(* 64 indices (TLC's evaluation stack bounds the depth of one recursion).   *)
(***************************************************************************)
ChecksumAdd(acc, b) ==
    LET r == U8Add(acc.sum, b)
    IN  [sum |-> r.val, panicked |-> overflow_checks /\ r.overflow]

RECURSIVE ChecksumChunk(_, _, _)
ChecksumChunk(k, e, acc) ==
    IF acc.panicked \/ k >= e THEN acc
    ELSE ChecksumChunk(k + 1, e, ChecksumAdd(acc, At(k)))

RECURSIVE ChecksumFrom(_, _)
ChecksumFrom(k, acc) ==
    IF acc.panicked \/ k >= InputLen THEN acc
    ELSE ChecksumFrom(k + 64, ChecksumChunk(k, Min(k + 64, InputLen), acc))

ChecksumLoopResult ==
    ChecksumFrom(TS_BIN_VERSION_START_INDEX, [sum |-> 0, panicked |-> FALSE])

(***************************************************************************)
(* Lines 154-155 and 163-164:                                              *)
(*     input[a] + (input[a + 1] << 8)        with every operand a u8       *)
(* evaluated left to right: the two bounds-checked indexings, the shift,   *)
(* the addition.  site is "" when the expression yields val.               *)
(***************************************************************************)
OffsetExpr(a) ==
    IF a >= InputLen THEN [site |-> "slot_index", val |-> 0, reads |-> {a}]
    ELSE IF a + 1 >= InputLen THEN [site |-> "slot_index", val |-> 0, reads |-> {a, a + 1}]
    ELSE LET sh  == U8Shl(At(a + 1), 8)
             sum == U8Add(At(a), sh.val)
         IN  IF overflow_checks /\ sh.overflow
             THEN [site |-> "shl", val |-> 0, reads |-> {a, a + 1}]
             ELSE IF overflow_checks /\ sum.overflow
             THEN [site |-> "add", val |-> 0, reads |-> {a, a + 1}]
             ELSE [site |-> "", val |-> sum.val, reads |-> {a, a + 1}]

\* index of package n's slot in the offset table
SlotIndex(n) == TS_CFG_BIN_HEAD_LEN + n * TS_CFG_OFFSET_LEN


(***************************************************************************)
(* The buffers parse is run on.  A buffer is laid out from a description   *)
(* d: its length, the bin_len it declares (len + dlen), the first version  *)
(* byte, pkg_num, the 16-bit offsets written into the table, the cfg_type  *)
(* byte planted at offset + 19 of each package, the fill of every other    *)
(* byte, and the error ck added to the right checksum.                     *)
(***************************************************************************)
FillByte(f, k) == IF f = 1 THEN k % 256 ELSE f

CfgTypeIndex == 4 + TS_IC_TYPE_NAME_MAX_LEN

BodyByte(d, k) ==
    IF k < 4 THEN ((d.len + d.dlen) \div (256 ^ k)) % 256
    ELSE IF k = 4 THEN 0
    ELSE IF k = TS_BIN_VERSION_START_INDEX THEN d.ver
    ELSE IF k < TS_BIN_VERSION_START_INDEX + TS_BIN_VERSION_LEN THEN 0
    ELSE IF k = SizeOfBinHead - 1 THEN d.pkg_num
    ELSE IF k < TS_CFG_BIN_HEAD_LEN THEN 0
    ELSE IF k < TS_CFG_BIN_HEAD_LEN + TS_CFG_OFFSET_LEN * Len(d.offs)
         THEN LET n == (k - TS_CFG_BIN_HEAD_LEN) \div TS_CFG_OFFSET_LEN
                  o == d.offs[n + 1]
              IN  IF (k - TS_CFG_BIN_HEAD_LEN) % 2 = 0 THEN o % 256 ELSE o \div 256
    ELSE IF \E n \in 1..Len(d.offs) : k = d.offs[n] + CfgTypeIndex
         THEN d.types[CHOOSE n \in 1..Len(d.offs) : k = d.offs[n] + CfgTypeIndex]
    ELSE FillByte(d.fill, k)

\* (acc < 0 never holds: the test makes TLC evaluate acc at every step)
RECURSIVE SumChunk(_, _, _, _)
SumChunk(b, k, e, acc) ==
    IF acc < 0 \/ k >= e THEN acc ELSE SumChunk(b, k + 1, e, (acc + b[k + 1]) % 256)

RECURSIVE SumFrom(_, _, _)
SumFrom(b, k, acc) ==
    IF acc < 0 \/ k >= Len(b) THEN acc
    ELSE SumFrom(b, k + 64, SumChunk(b, k, Min(k + 64, Len(b)), acc))

\* the sum modulo 256 of the bytes of b from index 5 on
WrappingSum(b) == SumFrom(b, TS_BIN_VERSION_START_INDEX, 0)

\* body with its checksum byte (index 4) set to the right sum plus ck
WithChecksum(body, ck) ==
    IF Len(body) > 4 THEN [body EXCEPT ![5] = (WrappingSum(body) + ck) % 256] ELSE body

Buffer(d) == WithChecksum([k \in 1..d.len |-> BodyByte(d, k - 1)], d.ck)

\* cfg_type bytes of the packages: all 3, or 3 and 7 in turn
TypesOf(n, alt) == [j \in 1..n |-> IF alt /\ j % 2 = 0 THEN 7 ELSE 3]

\* the 16-bit offsets tried in slot j of the table
SlotVals(j) ==
    IF j = 1 THEN {0, 20, 274}
    ELSE IF j = 2 THEN {15, 60, 121, 274}
    ELSE {60, 242, 274}

RECURSIVE Tables(_)
Tables(n) ==
    IF n = 0 THEN {<<>>}
    ELSE {Append(t, o) : t \in Tables(n - 1), o \in SlotVals(n)}

\* truncated and header-only buffers, right and wrong bin_len and checksum
ShortBuffers ==
    {[len |-> l, dlen |-> dl, ck |-> c, ver |-> v, pkg_num |-> n,
      offs |-> [j \in 1..n |-> 20], types |-> TypesOf(n, FALSE), fill |-> f] :
        l \in 0..MaxShortLen, dl \in {0, 1, 256}, c \in {0, 1}, v \in {1, 255},
        n \in 0..MaxPkgNum, f \in {0, 170}}

\* buffers with an offset table of pkg_num entries
PackageBuffers ==
    UNION {{[len |-> l, dlen |-> 0, ck |-> 0, ver |-> 1, pkg_num |-> n,
             offs |-> t, types |-> TypesOf(n, alt), fill |-> f] :
               l \in {100, 200, 400}, t \in Tables(n), alt \in BOOLEAN, f \in {0, 1}} :
           n \in 1..MaxPkgNum}

\* one package at offset 18 whose payload has 32, 4096 and 4097 bytes
LongBuffers ==
    {[len |-> 18 + TS_PKG_HEAD_LEN + c, dlen |-> 0, ck |-> 0, ver |-> 1, pkg_num |-> 1,
      offs |-> <<18>>, types |-> <<7>>, fill |-> f] :
        c \in {32, GOODIX_CFG_MAX_SIZE, GOODIX_CFG_MAX_SIZE + 1}, f \in {0, 170}}

Buffers == {Buffer(d) : d \in ShortBuffers \cup PackageBuffers \cup LongBuffers}

(***************************************************************************)
(* Line 120: `this` is all zero bytes: head is zero, cfg_pkgs is a vector  *)
(* of length 0 and ic_configs a map of 0 items.  Locals not yet assigned   *)
(* are given fixed values here.                                            *)
(***************************************************************************)
ZeroHead == [bin_len |-> 0, checksum |-> 0, bin_version |-> <<0, 0, 0, 0>>, pkg_num |-> 0]

NoPkg == [pkg_len |-> 0]

NoConfig == [len |-> 0, data |-> <<>>]

Init ==
    /\ input \in Buffers
    /\ overflow_checks \in BOOLEAN
    /\ pc = "start"
    /\ head = ZeroHead
    /\ checksum = 0
    /\ i = 0
    /\ offset1 = 0
    /\ offset2 = 0
    /\ cfg_pkg = NoPkg
    /\ ic_config = NoConfig
    /\ cfg_pkgs = <<>>
    /\ ic_configs = <<>>
    /\ result = "none"
    /\ site = ""
    /\ oob = FALSE
    /\ slotReads = {}
    /\ pkgReads = {}


(***************************************************************************)
(* Decoding of the packed records: copy_nonoverlapping into a              *)
(* #[repr(C, packed(1))] struct places byte k of the source at byte k of   *)
(* the struct, so each field is the bytes at its packed offset.            *)
(***************************************************************************)
\* GoodixCfgBinHead from its 10 bytes
DecodeHead(b) ==
    [bin_len     |-> LE32(SubSeq(b, 1, 4)),
     checksum    |-> b[5],
     bin_version |-> SubSeq(b, 6, 5 + TS_BIN_VERSION_LEN),
     pkg_num     |-> b[6 + TS_BIN_VERSION_LEN]]

\* GoodixCfgPkgConstInfo from its 56 bytes (pkg_len kept as its four bytes)
DecodeConstInfo(b) ==
    [pkg_len        |-> SubSeq(b, 1, 4),
     ic_type        |-> SubSeq(b, 5, 19),
     cfg_type       |-> b[20],
     sensor_id      |-> b[21],
     hw_pid         |-> SubSeq(b, 22, 29),
     hw_vid         |-> SubSeq(b, 30, 37),
     fw_mask        |-> SubSeq(b, 38, 46),
     fw_patch       |-> SubSeq(b, 47, 50),
     x_res_offset   |-> LE16(SubSeq(b, 51, 52)),
     y_res_offset   |-> LE16(SubSeq(b, 53, 54)),
     trigger_offset |-> LE16(SubSeq(b, 55, 56))]

\* GoodixCfgPkgReg from its 4 bytes
DecodeReg(b) == [addr |-> LE16(SubSeq(b, 1, 2)), reserved1 |-> b[3], reserved2 |-> b[4]]

RegNames == <<"cfg_send_flag", "version_base", "pid", "vid", "sensor_id", "fw_mask",
              "fw_status", "cfg_addr", "esd", "command", "coor", "gesture",
              "fw_request", "proximity">>

\* GoodixCfgPkgRegInfo from its 65 bytes: the 14 registers in declaration order
\* (regs[n] is the field RegNames[n]) and the reserved bytes
DecodeRegInfo(b) ==
    [regs     |-> [n \in 1..Len(RegNames) |->
                     DecodeReg(SubSeq(b, SizeOfPkgReg * (n - 1) + 1, SizeOfPkgReg * n))],
     reserved |-> SubSeq(b, SizeOfPkgReg * Len(RegNames) + 1, TS_PKG_REG_INFO_LEN)]

\* HashMap::insert: the value under key k is replaced, or the key is added
MapInsert(m, k, v) == [x \in DOMAIN m \cup {k} |-> IF x = k THEN v ELSE m[x]]

(***************************************************************************)
(* The conditions parse branches on.                                       *)
(***************************************************************************)
\* the size check with the header taken one byte short (pkg_num left out)
HeadTooShortOffByOne(len) == len < SizeOfBinHead - 1

\* line 122: input.len() < size_of::<GoodixCfgBinHead>()
HeadTooShort(len) == len < SizeOfBinHead

\* the length check accepting a buffer shorter than it declares
LengthMismatchOnlyLonger(len, bin_len) == len > bin_len

\* line 134: input.len() as u32 != this.head.bin_len
LengthMismatch(len, bin_len) == len # bin_len

\* line 144: checksum != this.head.checksum
ChecksumDiffers(sum, declared) == sum # declared

\* the loop bound taken inclusive (0..=pkg_num)
InLoopRangeInclusive(n, pkg_num) == n <= pkg_num

\* line 152: whether n is in 0..pkg_num
InLoopRange(n, pkg_num) == n < pkg_num

\* line 159: i == this.head.pkg_num as usize - 1
IsLastPkg(n, pkg_num) == n = pkg_num - 1

\* line 166: offset2 <= offset1
OffsetNotAfter(o2, o1) == o2 <= o1

(***************************************************************************)
(* parse, statement by statement.                                          *)
(***************************************************************************)
Return(r, s) == pc' = "done" /\ result' = r /\ site' = s

Goto(l) == pc' = l /\ UNCHANGED <<result, site>>

\* lines 122-132: the size check and the copy of the header
ParseHead ==
    /\ pc = "start"
    /\ IF HeadTooShort(InputLen)
       THEN Return("InvalidSize", "") /\ UNCHANGED <<head, oob>>
       ELSE \E g \in Garbage :
              /\ head' = DecodeHead(RawCopy(0, SizeOfBinHead, g))
              /\ oob' = (oob \/ SizeOfBinHead > InputLen)
              /\ Goto("length_check")
    /\ UNCHANGED <<input, overflow_checks, checksum, i, offset1, offset2, cfg_pkg, ic_config,
                   cfg_pkgs, ic_configs, slotReads, pkgReads>>

\* lines 134-136
LengthCheck ==
    /\ pc = "length_check"
    /\ IF LengthMismatch(InputLen, head.bin_len)
       THEN Return("LengthCheckFail", "")
       ELSE Goto("checksum")
    /\ UNCHANGED <<input, overflow_checks, head, checksum, i, offset1, offset2, cfg_pkg, ic_config,
                   cfg_pkgs, ic_configs, oob, slotReads, pkgReads>>

\* lines 138-142
ChecksumLoop ==
    /\ pc = "checksum"
    /\ LET r == ChecksumLoopResult
       IN  IF r.panicked
           THEN Return("panic", "checksum_add") /\ UNCHANGED checksum
           ELSE checksum' = r.sum /\ Goto("checksum_check")
    /\ UNCHANGED <<input, overflow_checks, head, i, offset1, offset2, cfg_pkg, ic_config,
                   cfg_pkgs, ic_configs, oob, slotReads, pkgReads>>

\* lines 144-148
ChecksumCheck ==
    /\ pc = "checksum_check"
    /\ IF ChecksumDiffers(checksum, head.checksum)
       THEN Return("ChecksumMismatch", "") /\ UNCHANGED <<cfg_pkgs, i>>
       ELSE cfg_pkgs' = <<>> /\ i' = 0 /\ Goto("loop")
    /\ UNCHANGED <<input, overflow_checks, head, checksum, offset1, offset2, cfg_pkg, ic_config,
                   ic_configs, oob, slotReads, pkgReads>>

\* lines 152-157: the next iteration: offset1 and the zeroed cfg_pkg
ReadOffset1 ==
    /\ pc = "loop"
    /\ InLoopRange(i, head.pkg_num)
    /\ LET e == OffsetExpr(SlotIndex(i))
       IN  /\ slotReads' = slotReads \cup e.reads
           /\ IF e.site # ""
              THEN Return("panic", e.site) /\ UNCHANGED <<offset1, cfg_pkg>>
              ELSE offset1' = e.val /\ cfg_pkg' = NoPkg /\ Goto("pkg_len")
    /\ UNCHANGED <<input, overflow_checks, head, checksum, i, offset2, ic_config,
                   cfg_pkgs, ic_configs, oob, pkgReads>>

\* lines 152, 206: the loop is over: Ok(this)
Finish ==
    /\ pc = "loop"
    /\ ~InLoopRange(i, head.pkg_num)
    /\ Return("Ok", "")
    /\ UNCHANGED <<input, overflow_checks, head, checksum, i, offset1, offset2, cfg_pkg, ic_config,
                   cfg_pkgs, ic_configs, oob, slotReads, pkgReads>>

\* lines 159-171: cfg_pkg.pkg_len, from offset1 and the length of the buffer
\* (last package) or from offset1 and offset2
ComputePkgLen ==
    /\ pc = "pkg_len"
    /\ IF IsLastPkg(i, head.pkg_num)
       THEN LET d == WordSub(InputLen, offset1)
            IN  /\ IF overflow_checks /\ d.overflow
                   THEN Return("panic", "pkg_len_sub") /\ UNCHANGED cfg_pkg
                   ELSE cfg_pkg' = [cfg_pkg EXCEPT !.pkg_len = d.val] /\ Goto("copy_info")
                /\ UNCHANGED <<slotReads, offset2>>
       ELSE LET e == OffsetExpr(SlotIndex(i) + 2)
            IN  /\ slotReads' = slotReads \cup e.reads
                /\ IF e.site # ""
                   THEN Return("panic", e.site) /\ UNCHANGED <<cfg_pkg, offset2>>
                   ELSE /\ offset2' = e.val
                        /\ IF OffsetNotAfter(e.val, offset1)
                           THEN Return("InvalidOffset", "") /\ UNCHANGED cfg_pkg
                           ELSE /\ cfg_pkg' = [cfg_pkg EXCEPT !.pkg_len = e.val - offset1]
                                /\ Goto("copy_info")
    /\ UNCHANGED <<input, overflow_checks, head, checksum, i, offset1, ic_config,
                   cfg_pkgs, ic_configs, oob, pkgReads>>

\* lines 173-188: the unchecked copies of cnst_info and reg_info from offset1,
\* then the bounds-checked &input[offset1 + TS_PKG_HEAD_LEN]
CopyInfo ==
    /\ pc = "copy_info"
    /\ pkgReads' = pkgReads \cup {i}
    /\ LET outside == offset1 + TS_PKG_HEAD_LEN > InputLen
       IN  \/ /\ outside
              /\ oob' = TRUE
              /\ Return("crash", "copy_info")
              /\ UNCHANGED cfg_pkg
           \/ \E g \in Garbage :
                /\ oob' = (oob \/ outside)
                /\ IF offset1 + TS_PKG_HEAD_LEN >= InputLen
                   THEN Return("panic", "cfg_index") /\ UNCHANGED cfg_pkg
                   ELSE /\ cfg_pkg' =
                             [pkg_len   |-> cfg_pkg.pkg_len,
                              cnst_info |-> DecodeConstInfo(
                                  RawCopy(offset1, TS_PKG_CONST_INFO_LEN, g)),
                              reg_info  |-> DecodeRegInfo(
                                  RawCopy(offset1 + TS_PKG_CONST_INFO_LEN,
                                          TS_PKG_REG_INFO_LEN, g)),
                              cfg       |-> offset1 + TS_PKG_HEAD_LEN]
                        /\ Goto("copy_cfg")
    /\ UNCHANGED <<input, overflow_checks, head, checksum, i, offset1, offset2, ic_config,
                   cfg_pkgs, ic_configs, slotReads>>

\* lines 191-198: cfg_len, the unchecked copy of cfg_len bytes into the
\* 4096-byte ic_config_data, and ic_config.  data holds the bytes copied into
\* the array; the rest of the array stays zero.
CopyConfig ==
    /\ pc = "copy_cfg"
    /\ LET d1      == WordSub(cfg_pkg.pkg_len, TS_PKG_CONST_INFO_LEN)
           d2      == WordSub(d1.val, TS_PKG_REG_INFO_LEN)
           cfg_len == d2.val
           wrapped == d1.overflow \/ d2.overflow
           srcOut  == wrapped \/ cfg_pkg.cfg + cfg_len > InputLen
           dstOut  == wrapped \/ cfg_len > GOODIX_CFG_MAX_SIZE
           kept    == IF dstOut THEN GOODIX_CFG_MAX_SIZE ELSE cfg_len
       IN  IF overflow_checks /\ wrapped
           THEN Return("panic", "cfg_len_sub") /\ UNCHANGED <<ic_config, oob>>
           ELSE \/ /\ srcOut \/ dstOut
                   /\ oob' = TRUE
                   /\ Return("crash", "copy_cfg")
                   /\ UNCHANGED ic_config
                \/ \E g \in Garbage :
                     /\ oob' = (oob \/ srcOut \/ dstOut)
                     /\ ic_config' = [len  |-> AsI32(cfg_len),
                                      data |-> RawCopy(cfg_pkg.cfg, kept, g)]
                     /\ Goto("insert")
    /\ UNCHANGED <<input, overflow_checks, head, checksum, i, offset1, offset2, cfg_pkg,
                   cfg_pkgs, ic_configs, slotReads, pkgReads>>

\* lines 200-203: the registry insert and the push, then the next i
InsertAndPush ==
    /\ pc = "insert"
    /\ ic_configs' = MapInsert(ic_configs, cfg_pkg.cnst_info.cfg_type, ic_config)
    /\ cfg_pkgs' = Append(cfg_pkgs, cfg_pkg)
    /\ i' = i + 1
    /\ Goto("loop")
    /\ UNCHANGED <<input, overflow_checks, head, checksum, offset1, offset2, cfg_pkg, ic_config,
                   oob, slotReads, pkgReads>>

Next ==
    \/ ParseHead
    \/ LengthCheck
    \/ ChecksumLoop
    \/ ChecksumCheck
    \/ ReadOffset1
    \/ Finish
    \/ ComputePkgLen
    \/ CopyInfo
    \/ CopyConfig
    \/ InsertAndPush

Spec == Init /\ [][Next]_vars


(***************************************************************************)
(* What the specification says of a buffer, stated from the buffer alone.  *)
(***************************************************************************)
Done == pc = "done"

\* bin_len as the buffer declares it (bytes 0..3, little-endian)
DeclaredBinLen == At(0) + 256 * At(1) + 65536 * At(2) + 16777216 * At(3)

\* the buffer passes the size, length and checksum checks
PassesChecks ==
    /\ InputLen >= 10
    /\ DeclaredBinLen = InputLen
    /\ WrappingSum(input) = At(4)

\* both bytes of table slot n are inside the buffer
SlotInBuffer(n) == 16 + 2 * n + 1 < InputLen

\* the 16-bit little-endian value of table slot n
SpecOffset(n) == At(16 + 2 * n) + 256 * At(16 + 2 * n + 1)

LastIndex == head.pkg_num - 1

\* the length the specification gives package n
SpecPkgLen(n) ==
    IF n = LastIndex THEN InputLen - SpecOffset(n) ELSE SpecOffset(n + 1) - SpecOffset(n)

\* parse is in iteration i, past the computation of cfg_pkg.pkg_len
PkgLenKnown ==
    \/ pc \in {"copy_info", "copy_cfg", "insert"}
    \/ Done /\ site \in {"copy_info", "cfg_index", "cfg_len_sub", "copy_cfg"}

\* C1: parse ends with a CfgBin or one of the four errors, never with a panic
\* or a crash, and no copy leaves the buffer.
C1_TotalAndMemorySafe ==
    /\ ~oob
    /\ Done => result \in Errors \cup {"Ok"}

\* parse ended on one of the overflow checks of the checksum loop or of an
\* offset expression
ArithmeticAbort == Done /\ site \in {"checksum_add", "shl", "add"}

\* C2: a package whose offset (or next offset) lies outside the buffer makes
\* parse fail with InvalidSize (InvalidOffset when an earlier or the same pair
\* of offsets does not increase) before any byte of the package is copied.
\* Stated for tables whose offsets are below 256 (the high byte of every slot
\* is 0) and for runs that do not end on an arithmetic overflow check.
C2_RangeChecked ==
    \A n \in 0..LastIndex :
        LET bad == \/ SpecOffset(n) > InputLen
                   \/ n # LastIndex /\ SpecOffset(n + 1) > InputLen
            unordered == \E m \in 0..n :
                            m # LastIndex /\ SpecOffset(m + 1) <= SpecOffset(m)
        IN  (PassesChecks /\ SlotInBuffer(LastIndex) /\ bad /\ ~ArithmeticAbort
               /\ \A m \in 0..LastIndex : At(16 + 2 * m + 1) = 0) =>
               /\ n \notin pkgReads
               /\ (Done /\ i >= n) =>
                     result \in {"InvalidSize"} \cup
                                (IF unordered THEN {"InvalidOffset"} ELSE {})

\* C3: a payload length pkg_len - 121 that is negative or above 4096 makes parse
\* fail with InvalidSize, no payload is copied with such a length, and every
\* IcConfig of a decoded CfgBin has 0 <= len <= 4096 and holds len bytes.
C3_PayloadLenChecked ==
    /\ PkgLenKnown /\ (cfg_pkg.pkg_len - 121 < 0 \/ cfg_pkg.pkg_len - 121 > 4096) =>
          /\ pc # "insert"
          /\ Done => result = "InvalidSize"
    /\ result = "Ok" =>
          \A k \in DOMAIN ic_configs :
              /\ ic_configs[k].len \in 0..4096
              /\ ic_configs[k].len = Len(ic_configs[k].data)

\* C4: offset1 (and offset2 of a package that is not the last) is the 16-bit
\* little-endian value of its table slot, and reading it never fails on the
\* arithmetic.
C4_Offset16Bit ==
    /\ site \notin {"shl", "add"}
    /\ (pc \in {"pkg_len", "copy_info", "copy_cfg", "insert"}) =>
          offset1 = SpecOffset(i)
    /\ (pc \in {"copy_info", "copy_cfg", "insert"} /\ i # LastIndex) =>
          offset2 = SpecOffset(i + 1)

\* C5: parse fails with InvalidOffset exactly on a package that is not the last
\* and whose next offset is not greater than its own; otherwise the pkg_len it
\* records is the difference of the two offsets, and for the last package the
\* buffer length minus its offset.  Runs that end on an arithmetic overflow
\* check are left aside.
C5_OffsetMonotonicity ==
    /\ (PassesChecks /\ SlotInBuffer(LastIndex) /\ Done /\ i < LastIndex
          /\ ~ArithmeticAbort
          /\ (\A m \in 0..(i - 1) : SpecOffset(m + 1) > SpecOffset(m))
          /\ SpecOffset(i + 1) <= SpecOffset(i)) => result = "InvalidOffset"
    /\ result = "InvalidOffset" => i < LastIndex /\ SpecOffset(i + 1) <= SpecOffset(i)
    /\ PkgLenKnown => cfg_pkg.pkg_len = SpecPkgLen(i)
    /\ result = "Ok" =>
          \A n \in 1..Len(cfg_pkgs) : cfg_pkgs[n].pkg_len = SpecPkgLen(n - 1)

\* C6: on a buffer of at least 10 bytes whose bin_len is its length, parse fails
\* with ChecksumMismatch exactly when the sum modulo 256 of the bytes from
\* index 5 differs from byte 4, and the summation never aborts.
C6_ChecksumIff ==
    (InputLen >= 10 /\ DeclaredBinLen = InputLen
       /\ pc \notin {"start", "length_check", "checksum", "checksum_check"}) =>
          /\ site # "checksum_add"
          /\ (result = "ChecksumMismatch") <=> (WrappingSum(input) # At(4))

\* C7: on a buffer of at least 10 bytes whose bin_len differs from its length,
\* parse fails with LengthCheckFail and never enters the checksum pass.
C7_LengthCheckFirst ==
    (InputLen >= 10 /\ DeclaredBinLen # InputLen) =>
        \/ pc \in {"start", "length_check"}
        \/ Done /\ result = "LengthCheckFail" /\ checksum = 0

C7_Witness ==
    /\ Done /\ result = "LengthCheckFail"
    /\ InputLen >= 10 /\ DeclaredBinLen # InputLen
    /\ WrappingSum(input) # At(4)

\* the payload of a decoded package: the pkg_len - 121 bytes at its cfg pointer
PayloadOf(p) ==
    [j \in 1..(p.pkg_len - 121) |-> IF p.cfg + j <= InputLen THEN input[p.cfg + j] ELSE -1]

\* C8: a decoded CfgBin holds the pkg_num packages in table order, and its
\* registry has exactly the cfg_types of the packages, each with the len and
\* the payload bytes of the last package of that cfg_type.
C8_LastWriteWins ==
    result = "Ok" =>
        /\ Len(cfg_pkgs) = head.pkg_num
        /\ \A n \in 1..Len(cfg_pkgs) : cfg_pkgs[n].cfg = SpecOffset(n - 1) + 121
        /\ DOMAIN ic_configs = {cfg_pkgs[n].cnst_info.cfg_type : n \in 1..Len(cfg_pkgs)}
        /\ \A k \in DOMAIN ic_configs :
              LET last == CHOOSE n \in 1..Len(cfg_pkgs) :
                              /\ cfg_pkgs[n].cnst_info.cfg_type = k
                              /\ \A m \in (n + 1)..Len(cfg_pkgs) :
                                     cfg_pkgs[m].cnst_info.cfg_type # k
              IN  /\ ic_configs[k].len = cfg_pkgs[last].pkg_len - 121
                  /\ ic_configs[k].data = PayloadOf(cfg_pkgs[last])

\* parse has passed its size, length and checksum checks
ChecksPassed ==
    /\ pc \notin {"start", "length_check", "checksum", "checksum_check"}
    /\ ~(Done /\ result \in {"InvalidSize", "LengthCheckFail", "ChecksumMismatch"})
    /\ ~(Done /\ site = "checksum_add")

C10_ShortInput ==
    InputLen < 10 =>
        /\ pc = "start" \/ (Done /\ result = "InvalidSize")
        /\ head = ZeroHead
        /\ ~oob

C10_Witness == Done /\ InputLen = 9 /\ result = "InvalidSize"

=============================================================================
